---- MODULE Spec2Model ----
(***************************************************************************)
(* State-machine model of the skin-lesion dashboard client:                *)
(*   - the API-backed upload tracker   (UploadContent,  unnamed/part_001)  *)
(*   - the History view                (HistoryContent, history-content)   *)
(*   - the Results view                (ResultsContent, unnamed/part_002)  *)
(* Every component is a React function component; its useState cells are   *)
(* the variables, its event handlers and promise continuations the actions.*)
(* The browser runs them on one event loop, so a handler runs atomically   *)
(* up to its first await, and the continuation of an await is a step of    *)
(* its own.                                                                *)
(***************************************************************************)
EXTENDS Integers, Sequences, FiniteSets, TLC

VARIABLES
    uploadedFiles,      \* useState<UploadedFile[]>            part_001:380
    selectedFile,       \* useState<UploadedFile | null>: <<>> or <<file>>  part_001:381
    predictRequests,    \* POST /api/predict requests in flight
    progressIntervals,  \* the live progressIntervals: item id -> firings so far
    objectURLs,         \* preview handles created and not revoked
    filesDropped,       \* number of files dropped so far (ids handed out)
    requestsSent,       \* number of POST /api/predict requests sent so far
    currentPrediction,  \* sessionStorage slot 'currentPrediction': <<>> or <<text>>
    page,               \* the route the tab shows: "upload", "results" or "history"
    limits,             \* how far a run is explored: [files, reanalyses, ticks, deletes, mounts]
    historyData,        \* useState<PredictionHistory[]>       history-content:478
    historyLoading,     \* useState(true)                      history-content:479
    historyError,       \* useState<string | null>: <<>> or <<text>>  history-content:480
    historyFetch,       \* TRUE while the mount's GET /api/predictions is in flight
    confirmDialog,      \* the open confirm() dialog: <<>> or <<predictionId>>
    deleteRequests,     \* DELETE /api/predictions/<id> requests in flight
    deletesSent,        \* number of DELETE requests sent so far
    alerts,             \* number of alert() dialogs shown so far
    deleted,            \* identifiers whose DELETE the service has answered 2xx
    historyMounts,      \* number of times the History view was mounted
    searchTerm,         \* useState("")                        history-content:475
    filterRisk,         \* useState<string>("all")             history-content:476
    sortBy,             \* useState<...>("date")               history-content:477
    predictionResult,   \* useState<PredictionResult | null>: <<>> or <<result>>  part_002:97
    imageUrl,           \* useState<string>("")                part_002:98
    resultsLoading,     \* useState(true)                      part_002:99
    noData,             \* useState(false)                     part_002:100
    resultsFetch,       \* TRUE while the mount's GET /api/predictions is in flight
    getsSent            \* GET /api/predictions requests sent by the mounted Results view

uploadVars == <<uploadedFiles, selectedFile, predictRequests, progressIntervals,
                objectURLs, filesDropped, requestsSent>>

filterVars == <<searchTerm, filterRisk, sortBy>>

historyVars == <<historyData, historyLoading, historyError, historyFetch,
                 confirmDialog, deleteRequests, deletesSent, alerts, deleted, historyMounts,
                 filterVars>>

resultsVars == <<predictionResult, imageUrl, resultsLoading, noData,
                 resultsFetch, getsSent>>

vars == <<uploadVars, currentPrediction, page, limits, historyVars, resultsVars>>

----------------------------------------------------------------------------
(* Bounds of the model *)

MaxFiles == 2       \* files dropped in one run
MaxReanalyze == 1   \* re-analyze clicks in one run
MaxTicks == 1       \* firings of one item's progress interval
MaxDeletes == 2     \* DELETE requests sent in one run
MaxHistoryMounts == 2   \* mounts of the History view in one run
MaxConfidence == 100    \* greatest confidence handed to getRecommendations, in hundredths

----------------------------------------------------------------------------
(* Values *)

\* The cap of the simulated progress while the request is in flight.
ProgressCap == 85

\* Math.random() * 15 lies in [0, 15): the model draws the two ends.
ProgressIncrements == {0, 14}

FileNames == {"lesion.png"}

\* Bodies the service answers POST /api/predict with (PredictionResult).
PredictBodies ==
    { [prediction_id |-> 101, class_name |-> "Melanoma", is_malignant |-> TRUE],
      [prediction_id |-> 102, class_name |-> "Nevus",    is_malignant |-> FALSE] }

\* What fetch / response.json() can throw: an Error with a message, or any
\* other value (a rejected promise may carry a non-Error).
ThrownValues ==
    { [isError |-> TRUE,  message |-> "Failed to fetch"],
      [isError |-> FALSE, message |-> "aborted"] }

StatusTexts == {"Internal Server Error"}

\* How a POST /api/predict settles.
PredictOutcomes ==
    [kind : {"ok"}, body : PredictBodies]
      \cup [kind : {"status"}, statusText : StatusTexts]
      \cup [kind : {"throw"}, thrown : ThrownValues]

\* JSON.stringify / JSON.parse of a value that came out of response.json().
JSONstringify(v) == [json |-> v]
JSONparse(text) == text.json

\* Records the service lists under GET /api/predictions (PredictionHistory);
\* the confidence is in hundredths.
ScanP1 ==
    [prediction_id |-> "p1", filename |-> "p1.jpg", timestamp |-> "2024-10-28T14:30:22",
     result |-> [class_name |-> "Melanoma", confidence |-> 87, description |-> "Serious",
                 is_malignant |-> TRUE, risk_level |-> "High"]]

ScanP2 ==
    [prediction_id |-> "p2", filename |-> "p2.jpg", timestamp |-> "2024-10-27T09:00:00",
     result |-> [class_name |-> "Nevus", confidence |-> 87, description |-> "Benign",
                 is_malignant |-> FALSE, risk_level |-> "low"]]

ScanP3 ==
    [prediction_id |-> "p3", filename |-> "p3.jpg", timestamp |-> "2024-10-28T14:30:22",
     result |-> [class_name |-> "melanoma", confidence |-> 40, description |-> "Mole",
                 is_malignant |-> FALSE, risk_level |-> "MEDIUM"]]

HistoryRecords == {ScanP1, ScanP2}

\* A larger service: a third record that ties with the first on the timestamp
\* and differs from it in the case of the class name.
ScanRecords == {ScanP1, ScanP2, ScanP3}

\* The lists the service can answer with: no record is listed twice.
PredictionLists ==
    {<<>>} \cup {<<a>> : a \in HistoryRecords}
           \cup {pair \in HistoryRecords \X HistoryRecords : pair[1] # pair[2]}

\* What response.json() of GET /api/predictions resolves to: <<>> for the JSON
\* value null, otherwise <<object>>, with or without a predictions field.
PredictionsData ==
    {<<>>} \cup {<<[error |-> "Internal server error"]>>}
           \cup {<<[predictions |-> list]>> : list \in PredictionLists}

\* What the service sends with a status that is not 2xx: no list of predictions.
ErrorData == {data \in PredictionsData :
                 data = <<>> \/ "predictions" \notin DOMAIN data[1]}

\* How GET /api/predictions settles: a body was parsed, with response.ok or
\* not, or fetch / response.json() rejected.
GetOutcomes ==
    [kind : {"json"}, ok : {TRUE}, data : PredictionsData]
      \cup [kind : {"json"}, ok : {FALSE}, data : ErrorData]
      \cup [kind : {"throw"}]

\* The lists of the larger service, and how its GET /api/predictions settles.
ScanLists ==
    PredictionLists
      \cup {<<a>> : a \in ScanRecords}
      \cup {pair \in ScanRecords \X ScanRecords : pair[1] # pair[2]}
      \cup {triple \in ScanRecords \X ScanRecords \X ScanRecords :
              triple[1] # triple[2] /\ triple[1] # triple[3] /\ triple[2] # triple[3]}

ScanGetOutcomes ==
    GetOutcomes \cup [kind : {"json"}, ok : {TRUE},
                      data : {<<[predictions |-> list]>> : list \in ScanLists}]

\* How DELETE /api/predictions/<id> settles: 2xx, another status, or a rejection.
DeleteOutcomes == [kind : {"ok", "status", "throw"}]

----------------------------------------------------------------------------
(* Helpers over the uploadedFiles list *)

MapFiles(prev, Change(_)) == [i \in 1..Len(prev) |-> Change(prev[i])]

FilterFiles(prev, Keep(_)) == SelectSeq(prev, Keep)

FileIds(files) == {files[i].id : i \in 1..Len(files)}

\* uploadedFiles.find(f => f.id === fileId): <<>> when there is none.
FindFile(files, fileId) ==
    LET hits == SelectSeq(files, LAMBDA f : f.id = fileId)
    IN  IF hits = <<>> THEN <<>> ELSE <<hits[1]>>

Min(a, b) == IF a <= b THEN a ELSE b

\* onDrop: acceptedFiles.map(file => ({file, preview, id, progress: 0, status: "uploading"}))
NewFiles(acceptedFiles, firstId) ==
    [k \in 1..Len(acceptedFiles) |->
        [file |-> acceptedFiles[k],
         preview |-> firstId + k - 1,
         id |-> firstId + k - 1,
         progress |-> 0,
         status |-> "uploading",
         predictionResult |-> <<>>,
         error |-> <<>>]]

\* The updater of the progressInterval callback without Math.min(..., 85).
progressTickUncapped(prev, id, rnd) ==
    MapFiles(prev, LAMBDA f :
        IF f.id = id /\ f.status = "uploading"
        THEN [f EXCEPT !.progress = f.progress + rnd]
        ELSE f)

\* The updater of the progressInterval callback.
progressTick(prev, id, rnd) ==
    MapFiles(prev, LAMBDA f :
        IF f.id = id /\ f.status = "uploading"
        THEN [f EXCEPT !.progress = Min(f.progress + rnd, ProgressCap)]
        ELSE f)

\* uploadSucceeded without "progress: 100".
uploadSucceededKeepsProgress(prev, fileId, result) ==
    MapFiles(prev, LAMBDA f :
        IF f.id = fileId
        THEN [f EXCEPT !.status = "completed", !.predictionResult = <<result>>]
        ELSE f)

\* uploadFileToBackend, success branch: the updater after response.json().
uploadSucceeded(prev, fileId, result) ==
    MapFiles(prev, LAMBDA f :
        IF f.id = fileId
        THEN [f EXCEPT !.progress = 100, !.status = "completed",
                       !.predictionResult = <<result>>]
        ELSE f)

\* The value caught by uploadFileToBackend for an outcome that is not a success:
\* a non-2xx answer throws new Error(`Upload failed: ${response.statusText}`).
ThrownBy(outcome) ==
    IF outcome.kind = "status"
    THEN [isError |-> TRUE, message |-> "Upload failed: " \o outcome.statusText]
    ELSE outcome.thrown

\* error instanceof Error ? error.message : 'Upload failed'
ErrorText(thrown) == IF thrown.isError THEN thrown.message ELSE "Upload failed"

\* uploadFailed without "status: 'error'".
uploadFailedKeepsStatus(prev, fileId, thrown) ==
    MapFiles(prev, LAMBDA f :
        IF f.id = fileId
        THEN [f EXCEPT !.error = <<ErrorText(thrown)>>]
        ELSE f)

\* The catch branch without the test f.id === fileId.
uploadFailedEveryItem(prev, fileId, thrown) ==
    MapFiles(prev, LAMBDA f :
        [f EXCEPT !.status = "error", !.error = <<ErrorText(thrown)>>])

\* uploadFileToBackend, catch branch.
uploadFailed(prev, fileId, thrown) ==
    MapFiles(prev, LAMBDA f :
        IF f.id = fileId
        THEN [f EXCEPT !.status = "error", !.error = <<ErrorText(thrown)>>]
        ELSE f)

\* The state update a settled request makes, whatever its outcome.
applyOutcome(prev, fileId, outcome) ==
    IF outcome.kind = "ok"
    THEN uploadSucceeded(prev, fileId, outcome.body)
    ELSE uploadFailed(prev, fileId, ThrownBy(outcome))

\* removeFile: prev.filter(f => f.id !== id)
removeFromList(prev, id) == FilterFiles(prev, LAMBDA f : f.id # id)

\* removeFile without the setSelectedFile(null).
selectionKeptOnRemove(sel, id) == sel

\* removeFile: if (selectedFile?.id === id) setSelectedFile(null)
selectionAfterRemove(sel, id) ==
    IF sel # <<>> /\ sel[1].id = id THEN <<>> ELSE sel

\* handleAnalyzeAgain: the updater that restarts an item.
markAnalyzing(prev, fileId) ==
    MapFiles(prev, LAMBDA f :
        IF f.id = fileId
        THEN [f EXCEPT !.status = "analyzing", !.progress = 0,
                       !.predictionResult = <<>>, !.error = <<>>]
        ELSE f)

\* const completedFiles = uploadedFiles.filter(f => f.status === "completed")
completedFiles(files) == FilterFiles(files, LAMBDA f : f.status = "completed")

\* Which button of the selected-image panel starts a re-analysis. The panel is
\* rendered from the selectedFile cell, inside {completedFiles.length > 0 && ...}.
reanalyzeButton(files, sel) ==
    IF completedFiles(files) = <<>> \/ sel = <<>> THEN "none"
    ELSE IF sel[1].predictionResult # <<>>
         THEN (IF sel[1].status = "analyzing" THEN "disabled" ELSE "Re-analyze")
    ELSE IF sel[1].status = "analyzing" THEN "disabled"
    ELSE IF sel[1].status = "error" THEN "Try Again"
    ELSE "none"

----------------------------------------------------------------------------
(* Mounting and unmounting the views *)

\* `http://localhost:5000/api/image/${result.filename}`: a missing field prints
\* as "undefined".
ImageUrlOf(result) ==
    "http://localhost:5000/api/image/" \o
        (IF "filename" \in DOMAIN result THEN result.filename ELSE "undefined")

\* The Results view asking at every mount, whatever the slot holds.
storedResultIgnored(storedResult) == TRUE

\* if (storedResult) ... else ...: the else branch is taken for a slot that was
\* never written.
storedResultMissing(storedResult) == storedResult = <<>>

\* The Results view mounts: its cells start at their useState values and the
\* effect runs with what the slot holds.
ResultsMount(storedResult) ==
    IF ~storedResultMissing(storedResult)
    THEN /\ predictionResult' = <<JSONparse(storedResult[1])>>
         /\ imageUrl' = ImageUrlOf(JSONparse(storedResult[1]))
         /\ resultsLoading' = FALSE
         /\ noData' = FALSE
         /\ resultsFetch' = FALSE
         /\ getsSent' = 0
    ELSE /\ predictionResult' = <<>>
         /\ imageUrl' = ""
         /\ resultsLoading' = TRUE
         /\ noData' = FALSE
         /\ resultsFetch' = TRUE
         /\ getsSent' = 1

\* The Results view unmounts: its cells are gone, and what its request does
\* afterwards reaches no state.
ResultsUnmount ==
    /\ predictionResult' = <<>>
    /\ imageUrl' = ""
    /\ resultsLoading' = TRUE
    /\ noData' = FALSE
    /\ resultsFetch' = FALSE
    /\ getsSent' = 0

\* The History view mounts: useState values, and the effect starts fetchHistory.
HistoryMount ==
    /\ historyData' = <<>>
    /\ historyLoading' = TRUE
    /\ historyError' = <<>>
    /\ historyFetch' = TRUE
    /\ confirmDialog' = <<>>
    /\ historyMounts' = historyMounts + 1
    /\ searchTerm' = ""
    /\ filterRisk' = "all"
    /\ sortBy' = "date"

\* The History view unmounts. Its DELETE requests stay in flight: a failure
\* still raises its alert.
HistoryUnmount ==
    /\ historyData' = <<>>
    /\ historyLoading' = TRUE
    /\ historyError' = <<>>
    /\ historyFetch' = FALSE
    /\ confirmDialog' = <<>>
    /\ historyMounts' = historyMounts
    /\ searchTerm' = ""
    /\ filterRisk' = "all"
    /\ sortBy' = "date"

\* The upload view unmounts: its cells are gone, and what its requests and
\* intervals do afterwards reaches no state.
UploadUnmount ==
    /\ uploadedFiles' = <<>>
    /\ selectedFile' = <<>>
    /\ predictRequests' = {}
    /\ progressIntervals' = <<>>

----------------------------------------------------------------------------
(* The upload view *)

\* The component's state when it mounts.
UploadMounted ==
    /\ uploadedFiles = <<>>
    /\ selectedFile = <<>>
    /\ predictRequests = {}
    /\ progressIntervals = <<>>

\* The tab has just loaded the application on /upload, whatever its session
\* storage holds.
TabOpened ==
    /\ UploadMounted
    /\ objectURLs = {}
    /\ filesDropped = 0
    /\ requestsSent = 0
    /\ page = "upload"
    /\ historyData = <<>>
    /\ historyLoading = TRUE
    /\ historyError = <<>>
    /\ historyFetch = FALSE
    /\ confirmDialog = <<>>
    /\ deleteRequests = {}
    /\ deletesSent = 0
    /\ alerts = 0
    /\ deleted = {}
    /\ historyMounts = 0
    /\ searchTerm = ""
    /\ filterRisk = "all"
    /\ sortBy = "date"
    /\ predictionResult = <<>>
    /\ imageUrl = ""
    /\ resultsLoading = TRUE
    /\ noData = FALSE
    /\ resultsFetch = FALSE
    /\ getsSent = 0

\* The tab has just opened the application on /upload: the slot was never written.
AppOpened == TabOpened /\ currentPrediction = <<>>

Limits(files, reanalyses) ==
    [files |-> files, reanalyses |-> reanalyses, ticks |-> MaxTicks,
     deletes |-> MaxDeletes, mounts |-> MaxHistoryMounts]

InitUpload == AppOpened /\ limits = Limits(MaxFiles, MaxReanalyze)

BatchesOf(n) == UNION {[1..k -> FileNames] : k \in 0..n}

\* onDrop(acceptedFiles): the items are appended, and for each of them the
\* interval is started and the request is sent before the handler returns.
onDrop(acceptedFiles) ==
    LET n == Len(acceptedFiles)
        newFiles == NewFiles(acceptedFiles, filesDropped + 1)
    IN  /\ page = "upload"
        /\ filesDropped + n <= limits.files
        /\ uploadedFiles' = uploadedFiles \o newFiles
        /\ progressIntervals' = [id \in DOMAIN progressIntervals \cup FileIds(newFiles) |->
                                    IF id \in DOMAIN progressIntervals
                                    THEN progressIntervals[id] ELSE 0]
        /\ objectURLs' = objectURLs \cup {newFiles[k].preview : k \in 1..n}
        /\ predictRequests' = predictRequests \cup
              {[rid |-> requestsSent + k, fileId |-> newFiles[k].id, origin |-> "drop"]
                  : k \in 1..n}
        /\ filesDropped' = filesDropped + n
        /\ requestsSent' = requestsSent + n
        /\ UNCHANGED <<selectedFile, currentPrediction, page, limits,
                   historyVars, resultsVars>>

\* One firing of an item's progressInterval.
progressIntervalFires(id, rnd) ==
    /\ page = "upload"
    /\ id \in DOMAIN progressIntervals
    /\ progressIntervals[id] < limits.ticks
    /\ uploadedFiles' = progressTick(uploadedFiles, id, rnd)
    /\ progressIntervals' = [progressIntervals EXCEPT ![id] = @ + 1]
    /\ UNCHANGED <<selectedFile, predictRequests, objectURLs,
                   filesDropped, requestsSent, currentPrediction, page, limits,
                   historyVars, resultsVars>>

\* A request settles: uploadFileToBackend resumes after its await, and its
\* caller in onDrop then clears the interval in either branch.
uploadFileToBackend(req, outcome) ==
    /\ page = "upload"
    /\ req \in predictRequests
    /\ uploadedFiles' = applyOutcome(uploadedFiles, req.fileId, outcome)
    /\ predictRequests' = predictRequests \ {req}
    /\ progressIntervals' =
          IF req.origin = "drop"
          THEN [id \in DOMAIN progressIntervals \ {req.fileId} |-> progressIntervals[id]]
          ELSE progressIntervals
    /\ UNCHANGED <<selectedFile, objectURLs, filesDropped, requestsSent,
                   currentPrediction, page, limits,
                   historyVars, resultsVars>>

\* onClick={() => setSelectedFile(file)} on the k-th thumbnail of completedFiles.
selectThumbnail(k) ==
    /\ page = "upload"
    /\ k \in 1..Len(completedFiles(uploadedFiles))
    /\ selectedFile' = <<completedFiles(uploadedFiles)[k]>>
    /\ UNCHANGED <<uploadedFiles, predictRequests, progressIntervals, objectURLs,
                   filesDropped, requestsSent, currentPrediction, page, limits,
                   historyVars, resultsVars>>

\* removeFile(id), from the X button of a row.
removeFile(id) ==
    /\ page = "upload"
    /\ id \in FileIds(uploadedFiles)
    /\ uploadedFiles' = removeFromList(uploadedFiles, id)
    /\ selectedFile' = selectionAfterRemove(selectedFile, id)
    /\ UNCHANGED <<predictRequests, progressIntervals, objectURLs,
                   filesDropped, requestsSent, currentPrediction, page, limits,
                   historyVars, resultsVars>>

\* handleAnalyzeAgain(selectedFile.id), from the Re-analyze / Try Again button.
handleAnalyzeAgain ==
    /\ page = "upload"
    /\ reanalyzeButton(uploadedFiles, selectedFile) \in {"Re-analyze", "Try Again"}
    /\ requestsSent - filesDropped < limits.reanalyses
    /\ LET fileId == selectedFile[1].id
           file == FindFile(uploadedFiles, fileId)
       IN  IF file = <<>>
           THEN UNCHANGED <<uploadedFiles, predictRequests, requestsSent>>
           ELSE /\ uploadedFiles' = markAnalyzing(uploadedFiles, fileId)
                /\ predictRequests' = predictRequests \cup
                      {[rid |-> requestsSent + 1, fileId |-> fileId, origin |-> "reanalyze"]}
                /\ requestsSent' = requestsSent + 1
    /\ UNCHANGED <<selectedFile, progressIntervals, objectURLs, filesDropped,
                   currentPrediction, page, limits,
                   historyVars, resultsVars>>

\* The "View Results" button of row k: the slot is written, and
\* router.push("/results") replaces the upload view by the Results view.
viewResults(k) ==
    /\ page = "upload"
    /\ k \in 1..Len(uploadedFiles)
    /\ uploadedFiles[k].status = "completed"
    /\ uploadedFiles[k].predictionResult # <<>>
    /\ currentPrediction' = <<JSONstringify(uploadedFiles[k].predictionResult[1])>>
    /\ page' = "results"
    /\ UploadUnmount
    /\ ResultsMount(currentPrediction')
    /\ UNCHANGED <<objectURLs, filesDropped, requestsSent, limits, historyVars>>

\* The "View Detailed Results" button of the selected-image panel.
viewDetailedResults ==
    /\ page = "upload"
    /\ completedFiles(uploadedFiles) # <<>>
    /\ selectedFile # <<>>
    /\ selectedFile[1].predictionResult # <<>>
    /\ currentPrediction' = <<JSONstringify(selectedFile[1].predictionResult[1])>>
    /\ page' = "results"
    /\ UploadUnmount
    /\ ResultsMount(currentPrediction')
    /\ UNCHANGED <<objectURLs, filesDropped, requestsSent, limits, historyVars>>

\* A link to /upload (sidebar, Results view, History view) mounts a fresh
\* upload view in place of the view shown.
openUpload ==
    /\ page # "upload"
    /\ confirmDialog = <<>>
    /\ page' = "upload"
    /\ UploadUnmount
    /\ HistoryUnmount
    /\ ResultsUnmount
    /\ UNCHANGED <<objectURLs, filesDropped, requestsSent, currentPrediction, limits,
                   deleteRequests, deletesSent, alerts, deleted>>

NextUpload ==
    \/ \E acceptedFiles \in BatchesOf(limits.files) : onDrop(acceptedFiles)
    \/ \E id \in DOMAIN progressIntervals, rnd \in ProgressIncrements :
          progressIntervalFires(id, rnd)
    \/ \E req \in predictRequests, outcome \in PredictOutcomes :
          uploadFileToBackend(req, outcome)
    \/ \E k \in 1..Len(uploadedFiles) : selectThumbnail(k)
    \/ \E id \in FileIds(uploadedFiles) : removeFile(id)
    \/ handleAnalyzeAgain
    \/ \E k \in 1..Len(uploadedFiles) : viewResults(k)
    \/ viewDetailedResults
    \/ openUpload

SpecUpload == InitUpload /\ [][NextUpload]_vars

\* A wider run of the same view: one more file and one more re-analyze click,
\* so that one item can have two requests in flight while another item has one.
InitUploadWide == AppOpened /\ limits = Limits(MaxFiles + 1, MaxReanalyze + 1)

SpecUploadWide == InitUploadWide /\ [][NextUpload]_vars

\* The ways a POST /api/predict settles in the runs checked for progress: one
\* answer of each kind.
SettlingOutcomes ==
    {outcome \in PredictOutcomes :
        \/ outcome.kind = "ok" /\ outcome.body.is_malignant
        \/ outcome.kind = "status"
        \/ outcome.kind = "throw" /\ outcome.thrown.isError}

NextUploadSettling ==
    \/ \E acceptedFiles \in BatchesOf(limits.files) : onDrop(acceptedFiles)
    \/ \E id \in DOMAIN progressIntervals, rnd \in ProgressIncrements :
          progressIntervalFires(id, rnd)
    \/ \E req \in predictRequests, outcome \in SettlingOutcomes :
          uploadFileToBackend(req, outcome)
    \/ \E k \in 1..Len(uploadedFiles) : selectThumbnail(k)
    \/ \E id \in FileIds(uploadedFiles) : removeFile(id)
    \/ handleAnalyzeAgain
    \/ \E k \in 1..Len(uploadedFiles) : viewResults(k)
    \/ viewDetailedResults
    \/ openUpload

\* Every request that is in flight settles at some time.
RequestSettles(rid) ==
    \E req \in predictRequests, outcome \in SettlingOutcomes :
        req.rid = rid /\ uploadFileToBackend(req, outcome)

\* While the view is mounted and a request is in flight, some request settles:
\* this is what "every request settles at some time" gives a run in which
\* finitely many requests are sent.
SpecUploadFair ==
    /\ InitUpload
    /\ [][NextUploadSettling]_vars
    /\ WF_vars(\E rid \in 1..(MaxFiles + MaxReanalyze) : RequestSettles(rid))

\* A slow request: one file, and enough firings of its interval for the
\* progress to reach the cap before the response.
MaxSlowFiles == 1

MaxSlowTicks == 8

InitUploadSlow ==
    /\ AppOpened
    /\ limits = [Limits(MaxSlowFiles, MaxReanalyze) EXCEPT !.ticks = MaxSlowTicks]

SpecUploadSlow == InitUploadSlow /\ [][NextUpload]_vars

----------------------------------------------------------------------------
(* The History view *)

HistoryIds(list) == {list[i].prediction_id : i \in 1..Len(list)}

\* fetchHistory failing on a body that has no predictions field.
historyFetchedStrict(outcome) ==
    IF /\ outcome.kind = "json" /\ outcome.ok /\ outcome.data # <<>>
       /\ "predictions" \in DOMAIN outcome.data[1]
    THEN [historyData |-> outcome.data[1].predictions, error |-> <<>>]
    ELSE [historyData |-> <<>>,
          error |-> <<"Failed to load scan history. Please ensure the backend server is running.">>]

\* fetchHistory without the test of response.ok.
historyFetchedAnyStatus(outcome) ==
    IF outcome.kind = "json" /\ outcome.data # <<>>
    THEN [historyData |-> IF "predictions" \in DOMAIN outcome.data[1]
                          THEN outcome.data[1].predictions ELSE <<>>,
          error |-> <<>>]
    ELSE [historyData |-> <<>>,
          error |-> <<"Failed to load scan history. Please ensure the backend server is running.">>]

\* fetchHistory after its awaits: what historyData and error are set to.
\* data.predictions of the JSON value null throws, and so does a status that
\* is not ok: both reach the catch branch.
historyFetched(outcome) ==
    IF outcome.kind = "json" /\ outcome.ok /\ outcome.data # <<>>
    THEN [historyData |-> IF "predictions" \in DOMAIN outcome.data[1]
                          THEN outcome.data[1].predictions ELSE <<>>,
          error |-> <<>>]
    ELSE [historyData |-> <<>>,
          error |-> <<"Failed to load scan history. Please ensure the backend server is running.">>]

\* The characters of the strings of the model.
CharsOf(text) ==
    CASE text = "" -> <<>>
      [] text = "MEL" -> <<"M", "E", "L">>
      [] text = "P2" -> <<"P", "2">>
      [] text = "ser" -> <<"s", "e", "r">>
      [] text = "zz" -> <<"z", "z">>
      [] text = "p1" -> <<"p", "1">>
      [] text = "p2" -> <<"p", "2">>
      [] text = "p3" -> <<"p", "3">>
      [] text = "Melanoma" -> <<"M", "e", "l", "a", "n", "o", "m", "a">>
      [] text = "melanoma" -> <<"m", "e", "l", "a", "n", "o", "m", "a">>
      [] text = "Nevus" -> <<"N", "e", "v", "u", "s">>
      [] text = "Serious" -> <<"S", "e", "r", "i", "o", "u", "s">>
      [] text = "Benign" -> <<"B", "e", "n", "i", "g", "n">>
      [] text = "Mole" -> <<"M", "o", "l", "e">>
      [] text = "High" -> <<"H", "i", "g", "h">>
      [] text = "high" -> <<"h", "i", "g", "h">>
      [] text = "low" -> <<"l", "o", "w">>
      [] text = "MEDIUM" -> <<"M", "E", "D", "I", "U", "M">>
      [] text = "medium" -> <<"m", "e", "d", "i", "u", "m">>
      [] text = "all" -> <<"a", "l", "l">>

UpperCaseLetters == {"B", "D", "E", "H", "I", "L", "M", "N", "P", "S", "U"}

LowerChar(c) ==
    CASE c = "B" -> "b" [] c = "D" -> "d" [] c = "E" -> "e" [] c = "H" -> "h"
      [] c = "I" -> "i" [] c = "L" -> "l" [] c = "M" -> "m" [] c = "N" -> "n"
      [] c = "P" -> "p" [] c = "S" -> "s" [] c = "U" -> "u"
      [] OTHER -> c

\* String.prototype.toLowerCase, on the characters of a string.
toLowerCase(chars) == [i \in 1..Len(chars) |-> LowerChar(chars[i])]

\* String.prototype.includes: needle occurs in hay at some offset.
includes(hay, needle) ==
    \E k \in 0..(Len(hay) - Len(needle)) :
        \A i \in 1..Len(needle) : hay[k + i] = needle[i]

\* The position of a character in the alphabet of the collation: digits
\* before letters, letters in alphabetical order whatever their case.
LetterRank(c) ==
    CASE c = "1" -> 1 [] c = "2" -> 2 [] c = "3" -> 3
      [] c = "a" -> 10 [] c = "b" -> 11 [] c = "d" -> 13 [] c = "e" -> 14
      [] c = "g" -> 16 [] c = "h" -> 17 [] c = "i" -> 18 [] c = "l" -> 21
      [] c = "m" -> 22 [] c = "n" -> 23 [] c = "o" -> 24 [] c = "p" -> 25
      [] c = "r" -> 27 [] c = "s" -> 28 [] c = "u" -> 30 [] c = "v" -> 31
      [] c = "w" -> 32 [] c = "z" -> 35

\* Compares two sequences of numbers as words: -1, 0 or 1.
RECURSIVE compareWords(_, _)
compareWords(a, b) ==
    IF a = <<>> /\ b = <<>> THEN 0
    ELSE IF a = <<>> THEN -1
    ELSE IF b = <<>> THEN 1
    ELSE IF a[1] < b[1] THEN -1
    ELSE IF a[1] > b[1] THEN 1
    ELSE compareWords(Tail(a), Tail(b))

\* String.prototype.localeCompare, on the characters of two strings: the
\* letters decide whatever their case; between strings of the same letters
\* the first difference of case decides, the lower-case letter first.
localeCompare(a, b) ==
    LET letters(chars) == [i \in 1..Len(chars) |-> LetterRank(LowerChar(chars[i]))]
        cases(chars) == [i \in 1..Len(chars) |->
                            IF chars[i] \in UpperCaseLetters THEN 1 ELSE 0]
        byLetters == compareWords(letters(a), letters(b))
    IN  IF byLetters # 0 THEN byLetters ELSE compareWords(cases(a), cases(b))

\* new Date(timestamp).getTime(), in seconds since 2024-10-27T00:00:00.
getTime(timestamp) ==
    CASE timestamp = "2024-10-27T09:00:00" -> 32400
      [] timestamp = "2024-10-28T14:30:22" -> 138622

\* The filter callback that looks at the class name alone.
matchesClassNameOnly(item, term, risk) ==
    /\ includes(toLowerCase(CharsOf(item.result.class_name)), toLowerCase(CharsOf(term)))
    /\ (risk = "all" \/ toLowerCase(CharsOf(item.result.risk_level)) = CharsOf(risk))

\* The callback of historyData.filter: matchesSearch && matchesFilter.
matchesScan(item, term, risk) ==
    LET needle == toLowerCase(CharsOf(term))
        matchesSearch ==
            \/ includes(toLowerCase(CharsOf(item.result.class_name)), needle)
            \/ includes(toLowerCase(CharsOf(item.result.description)), needle)
            \/ includes(toLowerCase(CharsOf(item.prediction_id)), needle)
        matchesFilter ==
            risk = "all" \/ toLowerCase(CharsOf(item.result.risk_level)) = CharsOf(risk)
    IN  matchesSearch /\ matchesFilter

\* historyData.filter(...)
filterScans(list, term, risk) ==
    SelectSeq(list, LAMBDA item : matchesScan(item, term, risk))

\* The sort callback that orders the dates oldest first.
compareScansOldestFirst(a, b, key) ==
    CASE key = "date" -> getTime(a.timestamp) - getTime(b.timestamp)
      [] key = "condition" ->
            localeCompare(CharsOf(a.result.class_name), CharsOf(b.result.class_name))
      [] key = "confidence" -> b.result.confidence - a.result.confidence
      [] OTHER -> 0

\* The callback of .sort: negative when a goes before b.
compareScans(a, b, key) ==
    CASE key = "date" -> getTime(b.timestamp) - getTime(a.timestamp)
      [] key = "condition" ->
            localeCompare(CharsOf(a.result.class_name), CharsOf(b.result.class_name))
      [] key = "confidence" -> b.result.confidence - a.result.confidence
      [] OTHER -> 0

\* Puts item into a sorted list behind every element that does not go after it.
RECURSIVE insertScan(_, _, _)
insertScan(sorted, item, key) ==
    IF sorted = <<>> THEN <<item>>
    ELSE IF compareScans(sorted[Len(sorted)], item, key) <= 0
         THEN Append(sorted, item)
         ELSE Append(insertScan(SubSeq(sorted, 1, Len(sorted) - 1), item, key),
                     sorted[Len(sorted)])

\* A sort that loses the first element of the list it is given.
RECURSIVE sortScansLosingLast(_, _)
sortScansLosingLast(list, key) ==
    IF Len(list) <= 1 THEN <<>>
    ELSE insertScan(sortScansLosingLast(SubSeq(list, 1, Len(list) - 1), key),
                    list[Len(list)], key)

\* Array.prototype.sort with the callback: a stable sort.
RECURSIVE sortScans(_, _)
sortScans(list, key) ==
    IF list = <<>> THEN <<>>
    ELSE insertScan(sortScans(SubSeq(list, 1, Len(list) - 1), key),
                    list[Len(list)], key)

\* const filteredData = historyData.filter(...).sort(...)
filteredData == sortScans(filterScans(historyData, searchTerm, filterRisk), sortBy)

\* What the table body shows.
historyTable ==
    IF historyLoading THEN "Loading scan history..."
    ELSE IF historyError # <<>> THEN "error"
    ELSE "rows"

\* A successful delete that drops the first row, whatever its identifier.
deleteSucceededDropsFirst(prev, predictionId) ==
    IF prev = <<>> THEN prev ELSE Tail(prev)

\* A successful delete that keeps the other rows in the reverse order.
deleteSucceededReversed(prev, predictionId) ==
    LET kept == SelectSeq(prev, LAMBDA item : item.prediction_id # predictionId)
    IN  [i \in 1..Len(kept) |-> kept[Len(kept) + 1 - i]]

\* prev.filter(item => item.prediction_id !== predictionId)
deleteSucceeded(prev, predictionId) ==
    SelectSeq(prev, LAMBDA item : item.prediction_id # predictionId)

\* handleDeleteScan removing the row whatever the answer is.
historyAfterDeleteOptimistic(prev, predictionId, outcome) ==
    deleteSucceeded(prev, predictionId)

\* handleDeleteScan after its await: the list is filtered when response.ok,
\* and left alone in the catch branch.
historyAfterDelete(prev, predictionId, outcome) ==
    IF outcome.kind = "ok" THEN deleteSucceeded(prev, predictionId) ELSE prev

\* The sidebar link to /history.
openHistory ==
    /\ page # "history"
    /\ historyMounts < limits.mounts
    /\ page' = "history"
    /\ UploadUnmount
    /\ ResultsUnmount
    /\ HistoryMount
    /\ UNCHANGED <<objectURLs, filesDropped, requestsSent, currentPrediction, limits,
                   deleteRequests, deletesSent, alerts, deleted>>

\* The GET /api/predictions of the mount settles: fetchHistory resumes.
fetchHistory(outcome) ==
    /\ page = "history"
    /\ historyFetch
    /\ confirmDialog = <<>>
    /\ historyData' = historyFetched(outcome).historyData
    /\ historyError' = historyFetched(outcome).error
    /\ historyLoading' = FALSE
    /\ historyFetch' = FALSE
    /\ UNCHANGED <<uploadVars, currentPrediction, page, limits, filterVars, confirmDialog,
                   deleteRequests, deletesSent, alerts, deleted, historyMounts, resultsVars>>

\* handleDeleteScan(predictionId), from the "Delete Scan" item of a row: the
\* handler stops in confirm(), which blocks the page until it is answered.
handleDeleteScan(predictionId) ==
    /\ page = "history"
    /\ historyTable = "rows"
    /\ predictionId \in HistoryIds(filteredData)
    /\ confirmDialog = <<>>
    /\ deletesSent < limits.deletes
    /\ confirmDialog' = <<predictionId>>
    /\ UNCHANGED <<uploadVars, currentPrediction, page, limits, filterVars, historyData,
                   historyLoading, historyError, historyFetch, deleteRequests,
                   deletesSent, alerts, deleted, historyMounts, resultsVars>>

\* confirm() returns: the handler returns when the user declined, and sends
\* the DELETE otherwise.
confirmAnswered(confirmed) ==
    /\ confirmDialog # <<>>
    /\ confirmDialog' = <<>>
    /\ IF confirmed
       THEN /\ deleteRequests' = deleteRequests \cup
                  {[rid |-> deletesSent + 1,
                    predictionId |-> confirmDialog[1],
                    mount |-> historyMounts,
                    listAtStart |-> historyData]}
            /\ deletesSent' = deletesSent + 1
       ELSE UNCHANGED <<deleteRequests, deletesSent>>
    /\ UNCHANGED <<uploadVars, currentPrediction, page, limits, filterVars, historyData,
                   historyLoading, historyError, historyFetch, alerts, deleted,
                   historyMounts, resultsVars>>

\* The view that sent the request is still the one on the page.
StillMounted(req) == page = "history" /\ req.mount = historyMounts

\* A DELETE settles: handleDeleteScan resumes after its await. The setter of a
\* view that was unmounted changes nothing; the alert is shown in any case.
deleteAnswered(req, outcome) ==
    /\ req \in deleteRequests
    /\ confirmDialog = <<>>
    /\ deleteRequests' = deleteRequests \ {req}
    /\ historyData' = IF StillMounted(req)
                      THEN historyAfterDelete(historyData, req.predictionId, outcome)
                      ELSE historyData
    /\ alerts' = IF outcome.kind = "ok" THEN alerts ELSE alerts + 1
    /\ deleted' = IF outcome.kind = "ok" THEN deleted \cup {req.predictionId} ELSE deleted
    /\ UNCHANGED <<uploadVars, currentPrediction, page, limits, filterVars, historyLoading,
                   historyError, historyFetch, confirmDialog, deletesSent,
                   historyMounts, resultsVars>>

\* handleViewDetails(prediction), from the "View Details" item of row k.
handleViewDetails(k) ==
    /\ page = "history"
    /\ historyTable = "rows"
    /\ k \in 1..Len(filteredData)
    /\ confirmDialog = <<>>
    /\ currentPrediction' = <<JSONstringify(filteredData[k])>>
    /\ page' = "results"
    /\ HistoryUnmount
    /\ ResultsMount(currentPrediction')
    /\ UNCHANGED <<uploadVars, limits, deleteRequests, deletesSent, alerts, deleted>>

\* What the user types into the search box.
SearchTerms == {"", "MEL", "P2", "ser", "zz"}

\* The items of the "Risk Level" menu.
RiskFilters == {"all", "high", "medium", "low"}

\* The items of the "Sort By" menu.
SortKeys == {"date", "condition", "confidence"}

\* onChange of the search box.
setSearchTerm(term) ==
    /\ page = "history"
    /\ confirmDialog = <<>>
    /\ searchTerm' = term
    /\ UNCHANGED <<uploadVars, currentPrediction, page, limits, historyData,
                   historyLoading, historyError, historyFetch, confirmDialog,
                   deleteRequests, deletesSent, alerts, deleted, historyMounts,
                   filterRisk, sortBy, resultsVars>>

\* onClick of an item of the "Risk Level" menu.
setFilterRisk(risk) ==
    /\ page = "history"
    /\ confirmDialog = <<>>
    /\ filterRisk' = risk
    /\ UNCHANGED <<uploadVars, currentPrediction, page, limits, historyData,
                   historyLoading, historyError, historyFetch, confirmDialog,
                   deleteRequests, deletesSent, alerts, deleted, historyMounts,
                   searchTerm, sortBy, resultsVars>>

\* onClick of an item of the "Sort By" menu.
setSortBy(key) ==
    /\ page = "history"
    /\ confirmDialog = <<>>
    /\ sortBy' = key
    /\ UNCHANGED <<uploadVars, currentPrediction, page, limits, historyData,
                   historyLoading, historyError, historyFetch, confirmDialog,
                   deleteRequests, deletesSent, alerts, deleted, historyMounts,
                   searchTerm, filterRisk, resultsVars>>

\* The "No scans found" block under the table.
noScansFound == Len(filteredData) = 0

----------------------------------------------------------------------------
(* The History view of the larger service: loading, searching, filtering and
   sorting *)

InitHistory == AppOpened /\ limits = Limits(MaxFiles, MaxReanalyze)

NextHistory ==
    \/ openHistory
    \/ \E outcome \in ScanGetOutcomes : fetchHistory(outcome)
    \/ \E term \in SearchTerms : setSearchTerm(term)
    \/ \E risk \in RiskFilters : setFilterRisk(risk)
    \/ \E key \in SortKeys : setSortBy(key)
    \/ openUpload

SpecHistory == InitHistory /\ [][NextHistory]_vars

----------------------------------------------------------------------------
(* The History view of the larger service: deleting rows *)

\* How the fetch of the mount settles in the runs that delete rows: a list of
\* three records in one order or the other, one record, none, or a failure.
DeleteGetOutcomes ==
    {outcome \in ScanGetOutcomes :
        \/ outcome.kind = "throw"
        \/ ~outcome.ok
        \/ /\ outcome.data # <<>>
           /\ "predictions" \in DOMAIN outcome.data[1]
           /\ outcome.data[1].predictions \in
                 {<<>>, <<ScanP1>>, <<ScanP1, ScanP2, ScanP3>>, <<ScanP3, ScanP2, ScanP1>>}}

InitDelete == AppOpened /\ limits = Limits(MaxFiles, MaxReanalyze)

NextDelete ==
    \/ openHistory
    \/ \E outcome \in DeleteGetOutcomes : fetchHistory(outcome)
    \/ \E predictionId \in HistoryIds(historyData) : handleDeleteScan(predictionId)
    \/ \E confirmed \in BOOLEAN : confirmAnswered(confirmed)
    \/ \E req \in deleteRequests, outcome \in DeleteOutcomes : deleteAnswered(req, outcome)
    \/ openUpload

SpecDelete == InitDelete /\ [][NextDelete]_vars

----------------------------------------------------------------------------
(* One visit of the History view: loading, filtering and deleting together *)

MaxVisitDeletes == 1

MaxVisitMounts == 1

InitVisit ==
    /\ AppOpened
    /\ limits = [Limits(MaxFiles, MaxReanalyze) EXCEPT !.deletes = MaxVisitDeletes,
                                                       !.mounts = MaxVisitMounts]

NextVisit ==
    \/ openHistory
    \/ \E outcome \in GetOutcomes : fetchHistory(outcome)
    \/ \E term \in {"", "MEL"} : setSearchTerm(term)
    \/ \E risk \in {"all", "high"} : setFilterRisk(risk)
    \/ \E key \in {"date", "confidence"} : setSortBy(key)
    \/ \E predictionId \in HistoryIds(historyData) : handleDeleteScan(predictionId)
    \/ \E confirmed \in BOOLEAN : confirmAnswered(confirmed)
    \/ \E req \in deleteRequests, outcome \in DeleteOutcomes : deleteAnswered(req, outcome)
    \/ openUpload

SpecVisit == InitVisit /\ [][NextVisit]_vars

----------------------------------------------------------------------------
(* The Results view *)

\* The prediction the .then callback displays: data.predictions[0] when the
\* list is there and not empty. <<>> stands for every other way the request
\* settles: an empty list, no predictions field, data.predictions of null
\* throwing, a rejection.
latestPrediction(outcome) ==
    IF /\ outcome.kind = "json"
       /\ outcome.data # <<>>
       /\ "predictions" \in DOMAIN outcome.data[1]
       /\ Len(outcome.data[1].predictions) > 0
    THEN <<outcome.data[1].predictions[1]>>
    ELSE <<>>

\* The Results view setting noData only in its else branch, not in .catch.
noDataUnlessCaught(outcome) ==
    latestPrediction(outcome) = <<>> /\ outcome.kind = "json" /\ outcome.data # <<>>

\* setNoData(true) of the else branch and of the .catch callback.
noDataAfterFetch(outcome) == latestPrediction(outcome) = <<>>

\* What the component renders.
resultsRender ==
    IF resultsLoading THEN "Loading results..."
    ELSE IF noData \/ predictionResult = <<>> THEN "No Analysis Results"
    ELSE "result"

\* confidence > 0.7, with the confidence in hundredths.
UrgentAbove == 70

UrgentConsult ==
    [priority |-> "urgent", action |-> "Consult a dermatologist immediately"]

BiopsyAdvice ==
    [priority |-> "important", action |-> "Biopsy may be recommended"]

MonitorRegularly ==
    [priority |-> "important", action |-> "Monitor the lesion regularly"]

FollowABCDE ==
    [priority |-> "monitor", action |-> "Follow ABCDE rule"]

\* getRecommendations with confidence >= 0.7 in place of confidence > 0.7.
getRecommendationsFromThreshold(ismalignant, confidence) ==
    (IF ismalignant \/ confidence >= UrgentAbove
     THEN <<UrgentConsult>> \o (IF ismalignant THEN <<BiopsyAdvice>> ELSE <<>>)
     ELSE <<MonitorRegularly>>)
    \o <<FollowABCDE>>

\* getRecommendations(ismalignant, confidence): the pushes, in their order.
getRecommendations(ismalignant, confidence) ==
    (IF ismalignant \/ confidence > UrgentAbove
     THEN <<UrgentConsult>> \o (IF ismalignant THEN <<BiopsyAdvice>> ELSE <<>>)
     ELSE <<MonitorRegularly>>)
    \o <<FollowABCDE>>

\* const recommendations = getRecommendations(result.is_malignant, result.confidence),
\* computed when the result is rendered.
recommendations ==
    getRecommendations(predictionResult[1].result.is_malignant,
                       predictionResult[1].result.confidence)

\* The sidebar link to /results (or the address bar).
openResults ==
    /\ page # "results"
    /\ confirmDialog = <<>>
    /\ page' = "results"
    /\ UploadUnmount
    /\ HistoryUnmount
    /\ ResultsMount(currentPrediction)
    /\ UNCHANGED <<objectURLs, filesDropped, requestsSent, currentPrediction, limits,
                   deleteRequests, deletesSent, alerts, deleted>>

\* The GET /api/predictions of the mount settles: the .then / .catch callbacks.
resultsFetched(outcome) ==
    /\ page = "results"
    /\ resultsFetch
    /\ resultsFetch' = FALSE
    /\ IF latestPrediction(outcome) # <<>>
       THEN /\ predictionResult' = latestPrediction(outcome)
            /\ imageUrl' = ImageUrlOf(latestPrediction(outcome)[1])
       ELSE UNCHANGED <<predictionResult, imageUrl>>
    /\ noData' = (noData \/ noDataAfterFetch(outcome))
    /\ resultsLoading' = FALSE
    /\ UNCHANGED <<uploadVars, currentPrediction, page, limits, historyVars, getsSent>>

----------------------------------------------------------------------------
(* The History and Results views, reached from the freshly opened tab *)

InitBrowse == AppOpened /\ limits = Limits(MaxFiles, MaxReanalyze)

NextBrowse ==
    \/ openHistory
    \/ \E outcome \in GetOutcomes : fetchHistory(outcome)
    \/ \E predictionId \in HistoryIds(historyData) : handleDeleteScan(predictionId)
    \/ \E confirmed \in BOOLEAN : confirmAnswered(confirmed)
    \/ \E req \in deleteRequests, outcome \in DeleteOutcomes : deleteAnswered(req, outcome)
    \/ \E k \in 1..Len(historyData) : handleViewDetails(k)
    \/ openResults
    \/ \E outcome \in GetOutcomes : resultsFetched(outcome)
    \/ openUpload

SpecBrowse == InitBrowse /\ [][NextBrowse]_vars

----------------------------------------------------------------------------
(* The Results view opened on a result that the slot holds *)

\* Results the slot can hold: every verdict with every confidence.
StoredResults ==
    { [prediction_id |-> "p1", filename |-> "p1.jpg",
       result |-> [class_name |-> "Melanoma", is_malignant |-> m, confidence |-> c]]
        : m \in BOOLEAN, c \in 0..MaxConfidence }

\* The tab is reloaded on /upload with a result left in its session storage.
InitRecommend ==
    /\ TabOpened
    /\ \E stored \in StoredResults : currentPrediction = <<JSONstringify(stored)>>
    /\ limits = Limits(MaxFiles, MaxReanalyze)

NextRecommend ==
    \/ openResults
    \/ openUpload

SpecRecommend == InitRecommend /\ [][NextRecommend]_vars

----------------------------------------------------------------------------
(* The alternative diagnoses of the Results view *)

\* .slice(0, 4)
ShownAlternatives == 4

\* The longest all_predictions list of the model.
MaxPredictions == 5

\* Entries the service can list in all_predictions.
PredictionEntries ==
    { [class_name |-> "Melanoma", confidence |-> 40],
      [class_name |-> "Nevus", confidence |-> 25],
      [class_name |-> "Basal Cell Carcinoma", confidence |-> 15],
      [class_name |-> "Actinic Keratosis", confidence |-> 10],
      [class_name |-> "Benign Keratosis", confidence |-> 6],
      [class_name |-> "Dermatofibroma", confidence |-> 4] }

\* The lists of distinct entries, in any order, of at most MaxPredictions entries.
AllPredictionsLists ==
    UNION { { list \in [1..n -> PredictionEntries] :
                \A i \in 1..n, j \in 1..n : list[i] = list[j] => i = j }
            : n \in 0..MaxPredictions }

\* The primary class names of the model: one that all_predictions can list,
\* one that it does not.
PrimaryClassNames == {"Melanoma", "Vascular Lesion"}

\* Results with the all_predictions field of the Results view's
\* PredictionResult, and one result without it (the shape of the upload
\* view's PredictionResult).
ResultsWithAlternatives ==
    { [prediction_id |-> "p1", filename |-> "p1.jpg",
       result |-> [class_name |-> primary, is_malignant |-> TRUE, confidence |-> 87,
                   all_predictions |-> list]]
        : primary \in PrimaryClassNames, list \in AllPredictionsLists }
    \cup
    { [prediction_id |-> "p1", filename |-> "p1.jpg",
       result |-> [class_name |-> "Melanoma", is_malignant |-> TRUE, confidence |-> 87]] }

\* slice(0, 4) taken before the filter.
alternativesSlicedFirst(result) ==
    SelectSeq(SubSeq(result.all_predictions, 1,
                     Min(ShownAlternatives, Len(result.all_predictions))),
              LAMBDA pred : pred.class_name # result.class_name)

\* result.all_predictions.filter(pred => pred.class_name !== result.class_name).slice(0, 4)
alternativeDiagnoses(result) ==
    LET others == SelectSeq(result.all_predictions,
                            LAMBDA pred : pred.class_name # result.class_name)
    IN  SubSeq(others, 1, Min(ShownAlternatives, Len(others)))

\* The rows of the Alternative Diagnoses card of the result rendered; reading
\* .filter of an all_predictions that is undefined throws a TypeError, and
\* the render shows no row.
alternatives ==
    IF "all_predictions" \in DOMAIN predictionResult[1].result
    THEN [rows |-> alternativeDiagnoses(predictionResult[1].result), thrown |-> FALSE]
    ELSE [rows |-> <<>>, thrown |-> TRUE]

\* The tab is reloaded on /upload with a result left in its session storage.
InitAlternatives ==
    /\ TabOpened
    /\ \E stored \in ResultsWithAlternatives : currentPrediction = <<JSONstringify(stored)>>
    /\ limits = Limits(MaxFiles, MaxReanalyze)

NextAlternatives ==
    \/ openResults
    \/ openUpload

SpecAlternatives == InitAlternatives /\ [][NextAlternatives]_vars

----------------------------------------------------------------------------
(* Properties of the upload view *)

HasFile(files, id) == id \in FileIds(files)

FileOf(files, id) == FindFile(files, id)[1]

StatusChanges ==
    { <<"uploading", "completed">>, <<"uploading", "error">>,
      <<"completed", "analyzing">>,
      <<"analyzing", "completed">>, <<"analyzing", "error">> }

\* C1: every status change of an UploadItem is one of uploading -> completed,
\* uploading -> error, completed -> analyzing (and that one only in a step of
\* handleAnalyzeAgain), analyzing -> completed, analyzing -> error.
C1_OnlyListedStatusChanges ==
    [][\A id \in FileIds(uploadedFiles) \cap FileIds(uploadedFiles') :
          LET before == FileOf(uploadedFiles, id).status
              after == FileOf(uploadedFiles', id).status
          IN  before # after =>
                /\ <<before, after>> \in StatusChanges
                /\ (before = "completed" => handleAnalyzeAgain)]_vars

\* C4: at every moment at most one POST /api/predict is outstanding for any
\* one UploadItem.
C4_OneRequestPerItem ==
    \A r1 \in predictRequests, r2 \in predictRequests :
        r1.fileId = r2.fileId => r1 = r2

\* What C5 compares of an item: its status, progress and predictionResult.
Outcome3(f) == <<f.status, f.progress, f.predictionResult>>

SameOutcomes(files1, files2) ==
    /\ Len(files1) = Len(files2)
    /\ \A i \in 1..Len(files1) : Outcome3(files1[i]) = Outcome3(files2[i])

\* C5: when several UploadItems have requests in flight, each response changes
\* only the item whose identifier matches the request, and the items' final
\* status, progress and predictionResult do not depend on the order in which
\* the responses arrive.
C5_ResponsesOrderIndependent ==
    Cardinality({r.fileId : r \in predictRequests}) >= 2 =>
        \A r1 \in predictRequests, o1 \in PredictOutcomes :
            /\ LET after == applyOutcome(uploadedFiles, r1.fileId, o1)
               IN  /\ Len(after) = Len(uploadedFiles)
                   /\ \A i \in 1..Len(uploadedFiles) :
                         uploadedFiles[i].id # r1.fileId => after[i] = uploadedFiles[i]
            /\ \A r2 \in predictRequests \ {r1}, o2 \in PredictOutcomes :
                  SameOutcomes(
                    applyOutcome(applyOutcome(uploadedFiles, r1.fileId, o1), r2.fileId, o2),
                    applyOutcome(applyOutcome(uploadedFiles, r2.fileId, o2), r1.fileId, o1))

\* C3: a 2xx answer with a parsed body gives the item predictionResult = body,
\* status completed and progress 100, whatever its progress was; a non-2xx
\* answer or a thrown value gives it status error and, as error text, the
\* thrown Error's message, or 'Upload failed' when the value is not an Error.
\* (The request that a step settles is one the step takes out of flight.)
C3_ResponseSetsResultOrError ==
    [][\A req \in predictRequests \ predictRequests', outcome \in PredictOutcomes :
          uploadFileToBackend(req, outcome) =>
            \A i \in 1..Len(uploadedFiles) :
                uploadedFiles[i].id = req.fileId =>
                    LET f == uploadedFiles'[i]
                    IN  /\ outcome.kind = "ok" =>
                              /\ f.predictionResult = <<outcome.body>>
                              /\ f.status = "completed"
                              /\ f.progress = 100
                        /\ outcome.kind = "status" =>
                              /\ f.status = "error"
                              /\ f.error = <<"Upload failed: " \o outcome.statusText>>
                        /\ outcome.kind = "throw" =>
                              /\ f.status = "error"
                              /\ f.error = IF outcome.thrown.isError
                                           THEN <<outcome.thrown.message>>
                                           ELSE <<"Upload failed">>]_vars

\* A first upload that was ticking has completed with progress 100 and a result,
\* and another item failed with a value that is no Error.
C3_Witness ==
    /\ \E i \in 1..Len(uploadedFiles) :
          /\ uploadedFiles[i].status = "completed"
          /\ uploadedFiles[i].progress = 100
          /\ uploadedFiles[i].predictionResult # <<>>
    /\ \E j \in 1..Len(uploadedFiles) :
          /\ uploadedFiles[j].status = "error"
          /\ uploadedFiles[j].progress = 14
          /\ uploadedFiles[j].error = <<"Upload failed">>

\* C6: removeFile(id) removes exactly the items with that identifier, clears
\* the selection when the selected item has that identifier and leaves the
\* selection alone otherwise. (The id a step removes is one that leaves the
\* list in the step.)
C6_RemoveFile ==
    [][\A id \in FileIds(uploadedFiles) \ FileIds(uploadedFiles') :
          removeFile(id) =>
            /\ uploadedFiles' = SelectSeq(uploadedFiles, LAMBDA f : f.id # id)
            /\ id \notin FileIds(uploadedFiles')
            /\ (selectedFile # <<>> /\ selectedFile[1].id = id) => selectedFile' = <<>>
            /\ ~(selectedFile # <<>> /\ selectedFile[1].id = id) =>
                  selectedFile' = selectedFile]_vars

\* The view was never left (the slot was never written), a re-analysis was
\* started, which needs a selection, and the selection is gone: the selected
\* item has been removed, and one item is still in the list.
C6_Witness ==
    /\ currentPrediction = <<>>
    /\ page = "upload"
    /\ requestsSent > filesDropped
    /\ selectedFile = <<>>
    /\ Len(uploadedFiles) = 1

\* onDrop appends one item per file, in the order of the files, each with an
\* identifier of its own.
C2_DropAddsOnePerFile ==
    \A acceptedFiles \in BatchesOf(MaxFiles) :
        onDrop(acceptedFiles) =>
            /\ Len(uploadedFiles') = Len(uploadedFiles) + Len(acceptedFiles)
            /\ SubSeq(uploadedFiles', 1, Len(uploadedFiles)) = uploadedFiles
            /\ \A k \in 1..Len(acceptedFiles) :
                  LET f == uploadedFiles'[Len(uploadedFiles) + k]
                  IN  /\ f.file = acceptedFiles[k]
                      /\ f.status = "uploading"
                      /\ f.id \notin FileIds(uploadedFiles)
                      /\ \A j \in 1..Len(acceptedFiles) :
                            j # k => uploadedFiles'[Len(uploadedFiles) + j].id # f.id

C2_UploadingOnlyWhileInFlight ==
    \A i \in 1..Len(uploadedFiles) :
        uploadedFiles[i].status = "uploading" =>
            \E req \in predictRequests :
                req.fileId = uploadedFiles[i].id /\ req.origin = "drop"

Uploading(id) ==
    HasFile(uploadedFiles, id) /\ FileOf(uploadedFiles, id).status = "uploading"

\* An item that stops being in status uploading is completed, in error, or gone.
C2_UploadingEndsSettled ==
    \A id \in 1..MaxFiles :
        (Uploading(id) /\ ~Uploading(id)') =>
            \/ ~HasFile(uploadedFiles', id)
            \/ FileOf(uploadedFiles', id).status \in {"completed", "error"}

\* C2: onDrop adds exactly one item per file; an item is in status uploading
\* only while its own request is in flight; and, every request settling at
\* some time, an item that is uploading is later completed, in error or gone
\* from the list, removed by the user or with the view (it stops being
\* uploading at some time, and the step that ends uploading leaves it
\* completed, in error or gone).
C2_EveryDropSettles ==
    /\ [][C2_DropAddsOnePerFile]_vars
    /\ []C2_UploadingOnlyWhileInFlight
    /\ [][C2_UploadingEndsSettled]_vars
    /\ \A id \in 1..MaxFiles : []<>(~Uploading(id))

\* Two files dropped at once have both settled, one each way.
C2_Witness ==
    /\ Len(uploadedFiles) = 2
    /\ filesDropped = 2
    /\ predictRequests = {}
    /\ uploadedFiles[1].status = "completed"
    /\ uploadedFiles[2].status = "error"
    /\ requestsSent = 2

----------------------------------------------------------------------------
(* Properties of the History view *)

\* A step of handleDeleteScan's continuation for a DELETE that failed.
DeleteFailed(req, outcome) == deleteAnswered(req, outcome) /\ outcome.kind # "ok"

\* C7, as stated: when a DELETE is answered with a status that is not 2xx, or
\* rejects, the History list is what it was when the delete was started, and
\* an alert is shown.
C7_ListAsWhenDeleteStarted ==
    [][\A req \in deleteRequests, outcome \in DeleteOutcomes :
          DeleteFailed(req, outcome) =>
            /\ alerts' = alerts + 1
            /\ StillMounted(req) => historyData' = req.listAtStart]_vars

\* C7, amended: when a DELETE is answered with a status that is not 2xx, or
\* rejects, the step that handles the answer leaves the History list as it was
\* just before, so the row is not removed by it, and shows an alert; the list
\* is then the list of the time the delete was started without the rows that
\* deletes answered 2xx in the meantime have removed.
C7_FailedDeleteLeavesList ==
    [][\A req \in deleteRequests, outcome \in DeleteOutcomes :
          DeleteFailed(req, outcome) =>
            /\ alerts' = alerts + 1
            /\ historyData' = historyData
            /\ StillMounted(req) =>
                  historyData' = SelectSeq(req.listAtStart,
                      LAMBDA item : item.prediction_id \in HistoryIds(historyData))]_vars

\* The first mount of the History view listed two rows, its one DELETE has
\* failed, and both rows are still listed.
C7_Witness ==
    /\ page = "history"
    /\ historyMounts = 1
    /\ deletesSent = 1
    /\ deleteRequests = {}
    /\ alerts = 1
    /\ Len(historyData) = 2

\* The History view stays the one on the page in this step.
HistoryStays == page = "history" /\ page' = "history" /\ historyMounts' = historyMounts

\* A row leaves the list only in the step that handles a 2xx answer to a
\* DELETE for its identifier.
RowLeavesOnlyAnswered2xx ==
    HistoryStays =>
        \A id \in HistoryIds(historyData) \ HistoryIds(historyData') :
            \E req \in deleteRequests :
                /\ req.predictionId = id
                /\ deleteAnswered(req, [kind |-> "ok"])

\* A DELETE is sent only in the step in which the user confirms, and for the
\* identifier the dialog was opened for.
DeleteSentOnlyConfirmed ==
    \A req \in deleteRequests' \ deleteRequests :
        /\ confirmAnswered(TRUE)
        /\ req.predictionId = confirmDialog[1]

\* Declining sends no request and leaves the list unchanged.
DeclineChangesNothing ==
    confirmAnswered(FALSE) =>
        /\ deleteRequests' = deleteRequests
        /\ deletesSent' = deletesSent
        /\ historyData' = historyData

\* The row of a DELETE in flight is in the list.
RowPresentInFlight ==
    \A req \in deleteRequests :
        StillMounted(req) => req.predictionId \in HistoryIds(historyData)

\* C8, as stated: a row leaves the History list only after the user has
\* confirmed and the server has answered the DELETE for its identifier with
\* 2xx; declining sends no request and leaves the list unchanged; and the row
\* is present as long as its request is in flight.
C8_RowPresentUntilAnswered ==
    /\ [][RowLeavesOnlyAnswered2xx /\ DeleteSentOnlyConfirmed /\ DeclineChangesNothing]_vars
    /\ []RowPresentInFlight

\* C8, amended: a row leaves the History list only in the step that handles a
\* 2xx answer to a DELETE for its identifier, and such a DELETE is sent only
\* when the user confirms; declining sends no request and leaves the list
\* unchanged; sending the request removes no row, so a row whose request is in
\* flight stays listed until some DELETE for its identifier is answered 2xx.
C8_RowLeavesOnlyOn2xx ==
    [][/\ RowLeavesOnlyAnswered2xx
       /\ DeleteSentOnlyConfirmed
       /\ DeclineChangesNothing
       /\ confirmAnswered(TRUE) => historyData' = historyData]_vars

\* The first mount of the History view listed two rows, its one DELETE was
\* confirmed and answered 2xx, and one row is left.
C8_Witness ==
    /\ page = "history"
    /\ historyMounts = 1
    /\ deletesSent = 1
    /\ deleteRequests = {}
    /\ alerts = 0
    /\ confirmDialog = <<>>
    /\ Len(historyData) = 1

----------------------------------------------------------------------------
(* Properties of the Results view *)

\* The step mounts the Results view.
ResultsMounts == page # "results" /\ page' = "results"

\* The Results view stays the one on the page in this step.
ResultsStays == page = "results" /\ page' = "results"

\* C9: when the Results view mounts and the slot currentPrediction holds a
\* result, the view displays that result and sends no request, then or later;
\* when the slot is empty the mount sends one GET /api/predictions, and the
\* view sends no second one as long as it is mounted.
C9_SlotOrOneGet ==
    /\ [][ResultsMounts =>
            IF currentPrediction' # <<>>
            THEN /\ predictionResult' = <<JSONparse(currentPrediction'[1])>>
                 /\ resultsRender' = "result"
                 /\ getsSent' = 0
                 /\ ~resultsFetch'
            ELSE /\ getsSent' = 1
                 /\ resultsFetch']_vars
    /\ [][ResultsStays =>
            /\ getsSent' = getsSent
            /\ resultsFetch' => resultsFetch
            /\ currentPrediction # <<>> =>
                  /\ predictionResult' = predictionResult
                  /\ resultsRender' = "result"]_vars
    /\ [](page = "results" =>
            getsSent = IF currentPrediction = <<>> THEN 1 ELSE 0)

\* The Results view, reached by "View Details" of a History row, shows the
\* row that was written to the slot, and has sent no request.
C9_Witness ==
    /\ page = "results"
    /\ historyMounts = 1
    /\ currentPrediction # <<>>
    /\ predictionResult = <<JSONparse(currentPrediction[1])>>
    /\ resultsRender = "result"
    /\ getsSent = 0
    /\ ~resultsFetch

\* The fetch returned an empty list or failed: it rejected, its body was not
\* JSON, or the body parsed holds no list of predictions.
EmptyOrFailed(outcome) ==
    \/ outcome.kind = "throw"
    \/ /\ outcome.kind = "json"
       /\ \/ outcome.data = <<>>
          \/ "predictions" \notin DOMAIN outcome.data[1]
          \/ outcome.data[1].predictions = <<>>

\* C10: when the Results view has mounted with an empty slot and its fetch
\* returns an empty list or fails, the view has loading false and noData
\* true and renders 'No Analysis Results'; and it stays so as long as it is
\* mounted.
C10_EmptyStateStays ==
    /\ [][\A outcome \in GetOutcomes :
            (resultsFetched(outcome) /\ EmptyOrFailed(outcome)) =>
                /\ currentPrediction = <<>>
                /\ ~resultsLoading'
                /\ noData'
                /\ resultsRender' = "No Analysis Results"]_vars
    /\ [][(ResultsStays /\ ~resultsLoading /\ noData) =>
            /\ ~resultsLoading'
            /\ noData'
            /\ resultsRender' = "No Analysis Results"]_vars

\* The Results view was mounted with an empty slot, its one request has
\* settled without a prediction, and the empty state is shown.
C10_Witness ==
    /\ page = "results"
    /\ currentPrediction = <<>>
    /\ getsSent = 1
    /\ ~resultsFetch
    /\ ~resultsLoading
    /\ noData
    /\ predictionResult = <<>>
    /\ resultsRender = "No Analysis Results"

----------------------------------------------------------------------------
(* Properties of getRecommendations *)

\* C11: getRecommendations(isMalignant, confidence) returns, in this order,
\* [urgent consult, important biopsy, monitor ABCDE] when isMalignant;
\* [urgent consult, monitor ABCDE] when not isMalignant and confidence > 0.7;
\* [important monitor-regularly, monitor ABCDE] when not isMalignant and
\* confidence <= 0.7, 0.7 included; the monitor ABCDE entry is the last entry
\* and occurs once. The list rendered is a function of the two values alone.
C11_Recommendations ==
    (page = "results" /\ resultsRender = "result") =>
        LET isMalignant == predictionResult[1].result.is_malignant
            confidence == predictionResult[1].result.confidence
            abcde == {i \in 1..Len(recommendations) :
                         recommendations[i].action = "Follow ABCDE rule"}
        IN  /\ isMalignant =>
                  recommendations = <<UrgentConsult, BiopsyAdvice, FollowABCDE>>
            /\ (~isMalignant /\ confidence > 70) =>
                  recommendations = <<UrgentConsult, FollowABCDE>>
            /\ (~isMalignant /\ confidence <= 70) =>
                  recommendations = <<MonitorRegularly, FollowABCDE>>
            /\ abcde = {Len(recommendations)}
            /\ recommendations[Len(recommendations)].priority = "monitor"

\* A result that is not malignant, with confidence exactly 0.7, is rendered
\* with the advice to monitor the lesion.
C11_Witness ==
    /\ page = "results"
    /\ resultsRender = "result"
    /\ ~predictionResult[1].result.is_malignant
    /\ predictionResult[1].result.confidence = 70
    /\ recommendations[1].action = "Monitor the lesion regularly"

----------------------------------------------------------------------------
(* Properties of the History list: search, filter, sort, load *)

\* The records of the model that hold the search term, whatever the case, in
\* the class name, the description or the prediction identifier.
HoldingTerm(term) ==
    CASE term = "" -> {"p1", "p2", "p3"}
      [] term = "MEL" -> {"p1", "p3"}
      [] term = "P2" -> {"p2"}
      [] term = "ser" -> {"p1"}
      [] term = "zz" -> {}

\* The records of the model whose lower-cased risk level is the filter.
OfRisk(risk) ==
    CASE risk = "all" -> {"p1", "p2", "p3"}
      [] risk = "high" -> {"p1"}
      [] risk = "low" -> {"p2"}
      [] risk = "medium" -> {"p3"}

SetOf(list) == {list[i] : i \in 1..Len(list)}

\* C12: a record of the History list is visible if and only if the search
\* term, compared without regard to case, is a substring of its class name,
\* description or prediction identifier, and the risk filter is 'all' or
\* equals its lower-cased risk level; with an empty search term and the
\* filter 'all' every record is visible.
C12_VisibleIffMatches ==
    /\ HistoryIds(filteredData) =
          {id \in HistoryIds(historyData) :
              id \in HoldingTerm(searchTerm) /\ id \in OfRisk(filterRisk)}
    /\ (searchTerm = "" /\ filterRisk = "all") =>
          SetOf(filteredData) = SetOf(historyData)

\* Of three records listed, the search for "MEL" with the filter 'medium'
\* shows the one whose class name is "melanoma" and risk level "MEDIUM".
C12_Witness ==
    /\ page = "history"
    /\ Len(historyData) = 3
    /\ searchTerm = "MEL"
    /\ filterRisk = "medium"
    /\ filteredData = <<ScanP3>>

\* The place of a class name of the model in alphabetical order.
ClassNamePlace(name) ==
    CASE name = "melanoma" -> 1
      [] name = "Melanoma" -> 2
      [] name = "Nevus" -> 3

\* C13: the visible list is a permutation of the records that match the
\* filter, ordered by timestamp non-increasing when sortBy is 'date' (the
\* value at mount), by class name non-decreasing, in alphabetical order, when
\* sortBy is 'condition', and by confidence non-increasing when sortBy is
\* 'confidence'.
C13_VisibleListSorted ==
  /\ [][openHistory => sortBy' = "date"]_vars
  /\ [](
    /\ Len(filteredData) = Len(filterScans(historyData, searchTerm, filterRisk))
    /\ SetOf(filteredData) = SetOf(filterScans(historyData, searchTerm, filterRisk))
    /\ \A i \in 1..Len(filteredData), j \in 1..Len(filteredData) :
          i < j =>
            /\ sortBy = "date" =>
                  getTime(filteredData[i].timestamp) >= getTime(filteredData[j].timestamp)
            /\ sortBy = "condition" =>
                  ClassNamePlace(filteredData[i].result.class_name)
                      <= ClassNamePlace(filteredData[j].result.class_name)
            /\ sortBy = "confidence" =>
                  filteredData[i].result.confidence >= filteredData[j].result.confidence
    )

\* Three records fetched in the order p1, p2, p3 are shown by condition:
\* melanoma, Melanoma, Nevus.
C13_Witness ==
    /\ page = "history"
    /\ historyData = <<ScanP1, ScanP2, ScanP3>>
    /\ sortBy = "condition"
    /\ filteredData = <<ScanP3, ScanP1, ScanP2>>

SucceededEmpty(outcome) ==
    /\ outcome.kind = "json"
    /\ outcome.ok
    /\ outcome.data # <<>>
    /\ \/ "predictions" \notin DOMAIN outcome.data[1]
       \/ outcome.data[1].predictions = <<>>

\* C15: when the History fetch succeeds with zero predictions, or with a body
\* without a predictions field, the view has loading false, error null and
\* an empty list, renders no row and shows 'No scans found'.
C15_EmptyHistory ==
    [][\A outcome \in ScanGetOutcomes :
          (fetchHistory(outcome) /\ SucceededEmpty(outcome)) =>
              /\ ~historyLoading'
              /\ historyError' = <<>>
              /\ historyData' = <<>>
              /\ historyTable' = "rows"
              /\ filteredData' = <<>>
              /\ noScansFound']_vars

\* The History view has loaded an empty list.
C15_Witness ==
    /\ page = "history"
    /\ ~historyFetch
    /\ ~historyLoading
    /\ historyError = <<>>
    /\ historyData = <<>>
    /\ historyTable = "rows"
    /\ noScansFound

\* C16: when the History fetch returns a status that is not 2xx, or rejects,
\* the view has loading false, an error message and an empty list, and the
\* message is rendered in place of the rows; whatever the outcome, the step
\* that settles the fetch sets loading false, and loading is true only while
\* the fetch is in flight.
C16_HistoryLoadFailure ==
    /\ [][\A outcome \in ScanGetOutcomes :
            fetchHistory(outcome) =>
                /\ ~historyLoading'
                /\ (outcome.kind = "throw" \/ ~outcome.ok) =>
                      /\ historyError' # <<>>
                      /\ historyData' = <<>>
                      /\ historyTable' = "error"]_vars
    /\ []((page = "history" /\ historyLoading) => historyFetch)

\* The History view failed to load.
C16_Witness ==
    /\ page = "history"
    /\ ~historyFetch
    /\ ~historyLoading
    /\ historyError # <<>>
    /\ historyData = <<>>
    /\ historyTable = "error"

----------------------------------------------------------------------------
(* Properties of the upload view: requests, the slot, previews *)

\* C17: no request is re-issued automatically. Every re-analyze action the
\* view offers finds its item and sends one request; a step sends as many
\* POST /api/predict requests as it drops files, plus one if it is a
\* re-analyze action, so that the requests sent number the files dropped
\* plus the re-analyze actions; and a request for an item already listed,
\* one that failed included, is sent only by a re-analyze action on that item.
C17_NoAutomaticRequest ==
    /\ []((page = "upload"
            /\ reanalyzeButton(uploadedFiles, selectedFile) \in {"Re-analyze", "Try Again"})
          => FindFile(uploadedFiles, selectedFile[1].id) # <<>>)
    /\ [][/\ requestsSent' - requestsSent
                = (filesDropped' - filesDropped) + (IF handleAnalyzeAgain THEN 1 ELSE 0)
          /\ \A req \in predictRequests' \ predictRequests :
                IF req.fileId \in FileIds(uploadedFiles)
                THEN handleAnalyzeAgain /\ selectedFile[1].id = req.fileId
                ELSE \E acceptedFiles \in BatchesOf(limits.files) : onDrop(acceptedFiles)]_vars

\* One file was dropped, analysed, selected and re-analysed; the second
\* request failed, and no request is in flight.
C17_Witness ==
    /\ page = "upload"
    /\ filesDropped = 1
    /\ requestsSent = 2
    /\ predictRequests = {}
    /\ Len(uploadedFiles) = 1
    /\ uploadedFiles[1].status = "error"

\* C18: selecting a completed item in the upload view writes that item's
\* predictionResult into the slot currentPrediction: after the click on its
\* thumbnail the slot holds the selected item's predictionResult.
C18_SelectionWritesSlot ==
    [][\A k \in 1..Len(completedFiles(uploadedFiles)) :
          selectThumbnail(k) =>
              currentPrediction' =
                  <<JSONstringify(completedFiles(uploadedFiles)[k].predictionResult[1])>>]_vars

\* The previews of the items listed.
ListedPreviews == {uploadedFiles[i].preview : i \in 1..Len(uploadedFiles)}

\* C19: removing an UploadItem releases its preview and has no effect on the
\* server: while the upload view is shown, every preview handle created at
\* drop and not released belongs to an item of the list, and removeFile
\* sends no request.
C19_RemovalReleasesPreview ==
    /\ [](page = "upload" => objectURLs \subseteq ListedPreviews)
    /\ [][\A id \in FileIds(uploadedFiles) :
            removeFile(id) =>
                /\ requestsSent' = requestsSent
                /\ predictRequests' \subseteq predictRequests
                /\ deletesSent' = deletesSent
                /\ getsSent' = getsSent]_vars

----------------------------------------------------------------------------
(* Properties of the alternative diagnoses *)

\* The positions of all_predictions whose class name is not the primary one.
OtherPositions(result) ==
    {i \in 1..Len(result.all_predictions) :
        result.all_predictions[i].class_name # result.class_name}

\* How many of these positions come before position i.
OthersBefore(result, i) == Cardinality({j \in OtherPositions(result) : j < i})

\* C20: the alternative diagnoses shown by the Results view are exactly the
\* first four entries, in the service's order, of all_predictions whose class
\* name differs from the primary class name: at most four are shown, none has
\* the primary class name, and they come in the order of the service's list.
C20_FirstFourAlternatives ==
    (page = "results" /\ resultsRender = "result" /\ ~alternatives.thrown) =>
        LET result == predictionResult[1].result
            rows == alternatives.rows
            firstFour == {i \in OtherPositions(result) : OthersBefore(result, i) < 4}
        IN  /\ Len(rows) <= 4
            /\ Len(rows) = Cardinality(firstFour)
            /\ \A i \in firstFour :
                  rows[OthersBefore(result, i) + 1] = result.all_predictions[i]
            /\ \A k \in 1..Len(rows) : rows[k].class_name # result.class_name

\* The service listed five classes with the primary one second: the fifth
\* entry is shown as the fourth alternative.
C20_Witness ==
    /\ page = "results"
    /\ resultsRender = "result"
    /\ ~alternatives.thrown
    /\ Len(predictionResult[1].result.all_predictions) = 5
    /\ predictionResult[1].result.all_predictions[2].class_name
          = predictionResult[1].result.class_name
    /\ Len(alternatives.rows) = 4
    /\ alternatives.rows[4] = predictionResult[1].result.all_predictions[5]

----------------------------------------------------------------------------
(* Properties of the Results view's fetch *)

\* The fetch answered with a list that is there and not empty.
ListedPredictions(outcome) ==
    IF /\ outcome.kind = "json"
       /\ outcome.data # <<>>
       /\ "predictions" \in DOMAIN outcome.data[1]
    THEN outcome.data[1].predictions
    ELSE <<>>

\* C21: when the Results view mounts with an empty slot and the fetch of the
\* predictions returns a list that is not empty, the prediction displayed is
\* the most recent of the list, the one with the greatest timestamp, in
\* whatever order the list comes.
C21_DisplaysMostRecent ==
    [][\A outcome \in GetOutcomes :
          (resultsFetched(outcome) /\ ListedPredictions(outcome) # <<>>) =>
              /\ predictionResult' # <<>>
              /\ predictionResult'[1] \in SetOf(ListedPredictions(outcome))
              /\ \A k \in 1..Len(ListedPredictions(outcome)) :
                    getTime(predictionResult'[1].timestamp)
                        >= getTime(ListedPredictions(outcome)[k].timestamp)]_vars

----------------------------------------------------------------------------
(* Properties of the simulated progress *)

----------------------------------------------------------------------------
(* Properties of a successful delete *)

\* The rows of the list, before position i, that have the identifier.
RemovedBefore(list, id, i) ==
    Cardinality({j \in 1..(i - 1) : list[j].prediction_id = id})

\* after is before without the rows that have the identifier, the other rows
\* in the same relative order.
IsListWithout(after, before, id) ==
    /\ Len(after) = Len(before) - RemovedBefore(before, id, Len(before) + 1)
    /\ \A i \in 1..Len(before) :
          before[i].prediction_id # id =>
              after[i - RemovedBefore(before, id, i)] = before[i]

\* Handling the 2xx answers of two deletes in flight, in either order, gives
\* the same list: the list without the rows of the two identifiers.
BothOrdersAgree ==
    \A first \in deleteRequests, second \in deleteRequests :
        (/\ first.predictionId # second.predictionId
         /\ StillMounted(first)
         /\ StillMounted(second))
        => LET ok == [kind |-> "ok"]
               oneWay == historyAfterDelete(
                             historyAfterDelete(historyData, first.predictionId, ok),
                             second.predictionId, ok)
               otherWay == historyAfterDelete(
                               historyAfterDelete(historyData, second.predictionId, ok),
                               first.predictionId, ok)
           IN  /\ oneWay = otherWay
               /\ SetOf(oneWay) =
                     {item \in SetOf(historyData) :
                         item.prediction_id \notin {first.predictionId, second.predictionId}}

\* C23, as stated: when a delete succeeds, the History list afterwards is the
\* list before without the rows whose identifier is the deleted one, the other
\* rows in the same relative order; and two deletes in flight for different
\* identifiers that both succeed remove both rows and no other, in whatever
\* order the answers arrive.
C23_DeleteRemovesRow ==
    /\ [][\A req \in deleteRequests :
            deleteAnswered(req, [kind |-> "ok"]) =>
                IsListWithout(historyData', historyData, req.predictionId)]_vars
    /\ []BothOrdersAgree

\* C23, amended: when a delete succeeds while the view that sent it is the one
\* on the page, the History list afterwards is the list before without the
\* rows whose identifier is the deleted one, the other rows in the same
\* relative order; the answer to a delete sent by a view that was unmounted
\* since changes no list; and two deletes in flight for different identifiers
\* that both succeed remove both rows and no other, in whatever order the
\* answers arrive.
C23_DeleteRemovesRowOfItsView ==
    /\ [][\A req \in deleteRequests :
            deleteAnswered(req, [kind |-> "ok"]) =>
                IF StillMounted(req)
                THEN IsListWithout(historyData', historyData, req.predictionId)
                ELSE historyData' = historyData]_vars
    /\ []BothOrdersAgree

\* Of three rows fetched, two deletes were sent; one was answered 2xx and
\* removed its row, the other is in flight and its row is listed.
C23_Witness ==
    /\ page = "history"
    /\ historyMounts = 1
    /\ deletesSent = 2
    /\ alerts = 0
    /\ Len(historyData) = 2
    /\ \E req \in deleteRequests :
          /\ deleteRequests = {req}
          /\ Len(req.listAtStart) = 3
          /\ req.predictionId \in HistoryIds(historyData)

----------------------------------------------------------------------------
(* Properties of items removed, re-analysed and selected *)

\* C24: when an UploadItem is removed while its request is in flight, the
\* response that arrives later, a success or a failure, changes no item of
\* the list and does not put the item back: the list gains identifiers only
\* at a drop, and these were never used before, so an identifier that was
\* removed never appears again.
C24_LateResponseChangesNothing ==
    /\ [](\A id \in FileIds(uploadedFiles) : id <= filesDropped)
    /\ [][/\ \A req \in predictRequests, outcome \in PredictOutcomes :
                (/\ uploadFileToBackend(req, outcome)
                 /\ req.fileId \notin FileIds(uploadedFiles))
                => uploadedFiles' = uploadedFiles
          /\ \A id \in FileIds(uploadedFiles') \ FileIds(uploadedFiles) :
                /\ id > filesDropped
                /\ \E acceptedFiles \in BatchesOf(limits.files) : onDrop(acceptedFiles)]_vars

\* Two files were dropped and the first was removed while its request is in
\* flight; the second is still uploading.
C24_Witness ==
    /\ page = "upload"
    /\ filesDropped = 2
    /\ Len(uploadedFiles) = 1
    /\ uploadedFiles[1].status = "uploading"
    /\ \E req \in predictRequests : req.fileId \notin FileIds(uploadedFiles)

C26_SelectionFollowsList ==
    /\ []((page = "upload" /\ selectedFile # <<>>) =>
            /\ FindFile(uploadedFiles, selectedFile[1].id) # <<>>
            /\ selectedFile[1].status = FindFile(uploadedFiles, selectedFile[1].id)[1].status
            /\ selectedFile[1].predictionResult
                  = FindFile(uploadedFiles, selectedFile[1].id)[1].predictionResult
            /\ FindFile(uploadedFiles, selectedFile[1].id)[1].status = "analyzing"
                  => reanalyzeButton(uploadedFiles, selectedFile) \in {"disabled", "none"})
    /\ [][viewDetailedResults =>
            /\ FindFile(uploadedFiles, selectedFile[1].id) # <<>>
            /\ FindFile(uploadedFiles, selectedFile[1].id)[1].predictionResult # <<>>
            /\ currentPrediction' =
                  <<JSONstringify(
                      FindFile(uploadedFiles, selectedFile[1].id)[1].predictionResult[1])>>]_vars

----------------------------------------------------------------------------
(* Properties of the History view's empty state and of its list *)

\* C27: in the History view 'No scans found' is shown only when loading has
\* finished without error and no record matches: never together with the row
\* 'Loading scan history...' and never together with the load-failure message.
C27_EmptyStateOnlyAfterLoad ==
    (page = "history" /\ noScansFound) =>
        /\ ~historyLoading
        /\ historyError = <<>>
        /\ historyTable = "rows"

\* C28: after a prediction has been deleted successfully through the History
\* view, no later visit of the Results view in the same tab displays it, even
\* when 'View Details' had handed it to the slot before the delete: the
\* Results view never mounts on a prediction whose DELETE was answered 2xx.
C28_DeletedNeverDisplayed ==
    [][(page # "results" /\ page' = "results" /\ predictionResult' # <<>>) =>
          predictionResult'[1].prediction_id \notin deleted]_vars

\* The step leaves the fetched list as it is and sends no request.
ListKeptNoRequest ==
    /\ historyData' = historyData
    /\ historyFetch' = historyFetch
    /\ deleteRequests' = deleteRequests
    /\ deletesSent' = deletesSent
    /\ getsSent' = getsSent
    /\ predictRequests' = predictRequests
    /\ requestsSent' = requestsSent

\* C29: changing the search term, the risk filter or the sort key in the
\* History view never changes the fetched list, neither its members nor their
\* order, and sends no request; while the view is shown the list is changed
\* only by the answer to the fetch of the mount and by a delete answered 2xx.
C29_FiltersLeaveList ==
    [][/\ \A term \in SearchTerms : setSearchTerm(term) => ListKeptNoRequest
       /\ \A risk \in RiskFilters : setFilterRisk(risk) => ListKeptNoRequest
       /\ \A key \in SortKeys : setSortBy(key) => ListKeptNoRequest
       /\ (HistoryStays /\ historyData' # historyData) =>
             \/ \E outcome \in GetOutcomes : fetchHistory(outcome)
             \/ \E req \in deleteRequests : deleteAnswered(req, [kind |-> "ok"])]_vars

\* Two records were fetched, with the older one first, and the search, the
\* filter and the sort key were changed: one record is visible, and the
\* fetched list is as the service sent it.
C29_Witness ==
    /\ page = "history"
    /\ historyData = <<ScanP2, ScanP1>>
    /\ searchTerm = "MEL"
    /\ filterRisk = "high"
    /\ sortBy = "confidence"
    /\ filteredData = <<ScanP1>>

====
